---- MODULE Spec2Model ----
(***************************************************************************)
(* Model of package bigq (service.go): the Service constructor New, and    *)
(* Service.Query with its helpers queryArgs, requestQuery and waitForJob.  *)
(* The BigQuery backend (Jobs.Query, Jobs.Get) and the client factory are  *)
(* external: their answers are chosen nondeterministically.                *)
(***************************************************************************)
EXTENDS Integers, Sequences, FiniteSets, TLC

VARIABLES
    callers,     \* the goroutines that call Service.Query
    service,     \* the *Service returned by New, Nil before
    newIn,       \* the arguments of the last call of New
    newRet,      \* what the last call of New returned: (svc, err)
    newLog,      \* the external calls the last call of New made
    pc,          \* per caller: where its Query call is
    args,        \* per caller: the variadic args of its Query call
    sql,         \* per caller: the query string of its Query call
    start,       \* per caller: local start of Query
    maxResults,  \* per caller: local maxResults of Query
    resp,        \* per caller: local resp of Query
    log,         \* per caller: the backend calls and sleeps of its Query call
    ret,         \* per caller: what its last Query call returned: (q, err)
    cursor,      \* the Query cursor a caller iterates, Nil while there is none
    yielded,     \* the rows the cursor has yielded, in order
    fetches,     \* the page fetches the cursor has made
    last         \* what the latest advance of the cursor gave

vars == <<callers, service, newIn, newRet, newLog,
          pc, args, sql, start, maxResults, resp, log, ret,
          cursor, yielded, fetches, last>>

svcVars == <<service, newIn, newRet, newLog>>

curVars == <<cursor, yielded, fetches, last>>

-----------------------------------------------------------------------------
(* Bounds of the model *)

\* most status fetches the backend answers within one Query call
MaxPolls == 2
\* most variadic arguments a caller passes to Query
MaxArgs == 3
\* most page fetches a cursor makes
MaxFetches == 2
\* most rows the backend puts in one page
MaxRows == 2

-----------------------------------------------------------------------------
(* Values *)

\* Go's nil, for pointers, interfaces and errors
Nil == [nil |-> TRUE]

\* uint64 and int64 are 64 bits wide: four 16-bit limbs, most significant first
Limb == 65536
NumLimbs == 4

U64(a, b, c, d) == <<a, b, c, d>>
U64Zero == U64(0, 0, 0, 0)
U64Five == U64(0, 0, 0, 5)
U64Ten == U64(0, 0, 0, 10)
U64MinNeg == U64(32768, 0, 0, 0)   \* 2^63, the least value with the top bit set

\* maxResults > 0 on a uint64
U64Positive(u) == \E i \in 1..NumLimbs : u[i] > 0

\* u + 1 modulo 2^64, carrying from limb i upwards
RECURSIVE U64Incr(_, _)
U64Incr(u, i) ==
    IF i = 0 THEN u
    ELSE IF u[i] = Limb - 1 THEN U64Incr([u EXCEPT ![i] = 0], i - 1)
    ELSE [u EXCEPT ![i] = u[i] + 1]

\* 2^64 - u modulo 2^64: the two's complement of the bit pattern
U64Neg(u) == U64Incr([i \in 1..NumLimbs |-> Limb - 1 - u[i]], NumLimbs)

\* an int64 value: its sign and its magnitude
Int64Zero == [neg |-> FALSE, mag |-> U64Zero]

\* Go's conversion int64(u) of a uint64: the same 64 bits read as two's
\* complement, so a set top bit gives the negative value u - 2^64
Int64OfUint64(u) ==
    IF u[1] >= Limb \div 2
    THEN [neg |-> TRUE, mag |-> U64Neg(u)]
    ELSE [neg |-> FALSE, mag |-> u]

\* the uint64 values callers pass
ArgVals == {U64Zero, U64Five, U64Ten, U64MinNeg}

\* every args slice of at most MaxArgs values
ArgLists == UNION {[1..n -> ArgVals] : n \in 0..MaxArgs}

Queries == {"SELECT 1"}
ProjectIDs == {"", "proj"}
DatasetIDs == {"", "data"}
Configs == [DatasetID : DatasetIDs, ProjectID : ProjectIDs]

\* an error value: where it was made and its message
Err(origin, msg) == [origin |-> origin, msg |-> msg]

\* ClientOptions: what its Service() method returns, (bqService, err)
ClientOptionsSet ==
    { [bqService |-> [client |-> "bq"], err |-> Nil],
      [bqService |-> Nil, err |-> Err("ClientOptions.Service", "bad credentials")] }

\* what the backend can answer
JobIds == {"job1", "job2"}
Messages == {"quota exceeded", "syntax error"}
TransportErrs == {Err("transport", "connection reset"), Err("transport", "quota exceeded")}
RowPages == {<<>>, <<"r1", "r2">>}
JobStates == {"RUNNING", "ERROR", "DONE"}

\* *bigquery.QueryResponse
QueryResponses ==
    { [JobComplete |-> TRUE, JobReference |-> [JobId |-> j], Rows |-> rows] :
        j \in JobIds, rows \in RowPages }
    \cup { [JobComplete |-> FALSE, JobReference |-> [JobId |-> j], Rows |-> <<>>] :
        j \in JobIds }

\* *bigquery.Job, as far as waitForJob reads it
Jobs ==
    { [Status |-> [State |-> st, ErrorResult |-> er]] :
        st \in JobStates, er \in {Nil} \cup {[Message |-> m] : m \in Messages} }

\* the (value, err) pairs of Jobs.Query(...).Do() and Jobs.Get(...).Do()
QueryAnswers ==
    {[resp |-> r, err |-> Nil] : r \in QueryResponses}
    \cup {[resp |-> Nil, err |-> e] : e \in TransportErrs}
GetAnswers ==
    {[job |-> j, err |-> Nil] : j \in Jobs}
    \cup {[job |-> Nil, err |-> e] : e \in TransportErrs}

-----------------------------------------------------------------------------
(* service.go *)

\* var errInvalidConfig
errInvalidConfig == Err("errors.New", "dataset and project can not be empty")

\* errors.New(message)
errorsNew(message) == Err("errors.New", message)

\* the wait between two status checks, in milliseconds
PollInterval == 300

\* New with the config check written with && instead of ||
NewResultBothEmpty(clientOptions, config) ==
    IF clientOptions.err # Nil
    THEN [svc |-> Nil, err |-> clientOptions.err]
    ELSE IF config.DatasetID = "" /\ config.ProjectID = ""
    THEN [svc |-> Nil, err |-> errInvalidConfig]
    ELSE [svc |-> [config |-> config, service |-> clientOptions.bqService],
          err |-> Nil]

\* New with the config checked before the factory's error
NewResultConfigFirst(clientOptions, config) ==
    IF config.DatasetID = "" \/ config.ProjectID = ""
    THEN [svc |-> Nil, err |-> errInvalidConfig]
    ELSE IF clientOptions.err # Nil
    THEN [svc |-> Nil, err |-> clientOptions.err]
    ELSE [svc |-> [config |-> config, service |-> clientOptions.bqService],
          err |-> Nil]

\* New handing out the Service together with errInvalidConfig
NewResultSvcWithErr(clientOptions, config) ==
    IF clientOptions.err # Nil
    THEN [svc |-> Nil, err |-> clientOptions.err]
    ELSE [svc |-> [config |-> config, service |-> clientOptions.bqService],
          err |-> IF config.DatasetID = "" \/ config.ProjectID = ""
                  THEN errInvalidConfig ELSE Nil]

\* func New: the (svc, err) it returns
NewResult(clientOptions, config) ==
    IF clientOptions.err # Nil
    THEN [svc |-> Nil, err |-> clientOptions.err]
    ELSE IF config.DatasetID = "" \/ config.ProjectID = ""
    THEN [svc |-> Nil, err |-> errInvalidConfig]
    ELSE [svc |-> [config |-> config, service |-> clientOptions.bqService],
          err |-> Nil]

\* queryArgs without the default case: further arguments are ignored
queryArgsNoDefault(a) ==
    CASE Len(a) = 0 -> [start |-> U64Zero, maxResults |-> U64Zero, err |-> Nil]
      [] Len(a) = 1 -> [start |-> a[1], maxResults |-> U64Zero, err |-> Nil]
      [] OTHER -> [start |-> a[1], maxResults |-> a[2], err |-> Nil]

\* queryArgs with the two positions exchanged
queryArgsSwapped(a) ==
    CASE Len(a) = 0 -> [start |-> U64Zero, maxResults |-> U64Zero, err |-> Nil]
      [] Len(a) = 2 -> [start |-> a[2], maxResults |-> a[1], err |-> Nil]
      [] Len(a) = 1 -> [start |-> U64Zero, maxResults |-> a[1], err |-> Nil]
      [] OTHER -> [start |-> U64Zero, maxResults |-> U64Zero,
                   err |-> Err("fmt.Errorf",
                               "too many arguments given to query: " \o ToString(Len(a)))]

\* func queryArgs: (start, maxResults, err)
queryArgs(a) ==
    CASE Len(a) = 0 -> [start |-> U64Zero, maxResults |-> U64Zero, err |-> Nil]
      [] Len(a) = 2 -> [start |-> a[1], maxResults |-> a[2], err |-> Nil]
      [] Len(a) = 1 -> [start |-> a[1], maxResults |-> U64Zero, err |-> Nil]
      [] OTHER -> [start |-> U64Zero, maxResults |-> U64Zero,
                   err |-> Err("fmt.Errorf",
                               "too many arguments given to query: " \o ToString(Len(a)))]

\* the *bigquery.QueryRequest requestQuery builds; MaxResults keeps its zero
\* value, which the client leaves out of the request, unless maxResults > 0
QueryRequest(s, query, mr) ==
    [DefaultDataset |-> [DatasetId |-> s.config.DatasetID,
                         ProjectId |-> s.config.ProjectID],
     Query |-> query,
     MaxResults |-> IF U64Positive(mr) THEN Int64OfUint64(mr) ELSE Int64Zero]

\* the call newQuery(s.service, resp, s.config.ProjectID, start, maxResults)
newQuery(s, r, st, mr) ==
    [service |-> s.service, resp |-> r, projectID |-> s.config.ProjectID,
     start |-> st, maxResults |-> mr]

\* the loop leaving on any state but RUNNING
waitForJobStepNotRunning(ans) ==
    IF ans.err # Nil
    THEN [next |-> "return", err |-> ans.err]
    ELSE IF ans.job.Status.State # "RUNNING"
    THEN IF ans.job.Status.ErrorResult # Nil
         THEN [next |-> "return", err |-> errorsNew(ans.job.Status.ErrorResult.Message)]
         ELSE [next |-> "break", err |-> Nil]
    ELSE [next |-> "sleep", err |-> Nil]

\* the loop leaving on DONE without reading ErrorResult
waitForJobStepNoErrorResult(ans) ==
    IF ans.err # Nil
    THEN [next |-> "return", err |-> ans.err]
    ELSE IF ans.job.Status.State = "DONE"
    THEN [next |-> "break", err |-> Nil]
    ELSE [next |-> "sleep", err |-> Nil]

\* the loop trying again after a failed status fetch
waitForJobStepRetry(ans) ==
    IF ans.err # Nil
    THEN [next |-> "sleep", err |-> Nil]
    ELSE IF ans.job.Status.State = "DONE"
    THEN IF ans.job.Status.ErrorResult # Nil
         THEN [next |-> "return", err |-> errorsNew(ans.job.Status.ErrorResult.Message)]
         ELSE [next |-> "break", err |-> Nil]
    ELSE [next |-> "sleep", err |-> Nil]

\* the loop reading ErrorResult before the state
waitForJobStepErrorResultFirst(ans) ==
    IF ans.err # Nil
    THEN [next |-> "return", err |-> ans.err]
    ELSE IF ans.job.Status.ErrorResult # Nil
    THEN [next |-> "return", err |-> errorsNew(ans.job.Status.ErrorResult.Message)]
    ELSE IF ans.job.Status.State = "DONE"
    THEN [next |-> "break", err |-> Nil]
    ELSE [next |-> "sleep", err |-> Nil]

\* the loop giving up on the first status that is not DONE
waitForJobStepGiveUp(ans) ==
    IF ans.err # Nil
    THEN [next |-> "return", err |-> ans.err]
    ELSE IF ans.job.Status.State = "DONE"
    THEN IF ans.job.Status.ErrorResult # Nil
         THEN [next |-> "return", err |-> errorsNew(ans.job.Status.ErrorResult.Message)]
         ELSE [next |-> "break", err |-> Nil]
    ELSE [next |-> "return", err |-> errorsNew("timeout")]

\* one iteration of the loop of waitForJob, given what Jobs.Get answered:
\* return err, break out of the loop, or sleep and go round again
waitForJobStep(ans) ==
    IF ans.err # Nil
    THEN [next |-> "return", err |-> ans.err]
    ELSE IF ans.job.Status.State = "DONE"
    THEN IF ans.job.Status.ErrorResult # Nil
         THEN [next |-> "return", err |-> errorsNew(ans.job.Status.ErrorResult.Message)]
         ELSE [next |-> "break", err |-> Nil]
    ELSE [next |-> "sleep", err |-> Nil]

\* Query sleeping before the first status fetch
afterRequestSleepFirst(ans) ==
    IF ans.err # Nil THEN "return"
    ELSE IF ~ans.resp.JobComplete THEN "sleep"
    ELSE "newQuery"

\* Query waiting for the job whatever JobComplete says
afterRequestAlwaysWait(ans) ==
    IF ans.err # Nil THEN "return"
    ELSE "waitForJob"

\* Query not checking the error of requestQuery
afterRequestNoErrCheck(ans) ==
    IF ans.err = Nil /\ ans.resp.JobComplete THEN "newQuery"
    ELSE "waitForJob"

\* what Query does with the answer of requestQuery
afterRequest(ans) ==
    IF ans.err # Nil THEN "return"
    ELSE IF ~ans.resp.JobComplete THEN "waitForJob"
    ELSE "newQuery"

-----------------------------------------------------------------------------
(* The state machine *)

\* the status fetches a Query call has made so far
Gets(l) == {i \in 1..Len(l) : l[i].op = "Jobs.Get"}
Sleeps(l) == {i \in 1..Len(l) : l[i].op = "Sleep"}
Submits(l) == {i \in 1..Len(l) : l[i].op = "Jobs.Query"}

NoRet == [q |-> Nil, err |-> Nil]

\* no cursor is being iterated
NoCursor ==
    /\ cursor = Nil
    /\ yielded = <<>>
    /\ fetches = <<>>
    /\ last = Nil

InitCalls ==
    /\ service = Nil
    /\ newIn = Nil
    /\ newRet = [svc |-> Nil, err |-> Nil]
    /\ newLog = <<>>
    /\ pc = [c \in callers |-> "idle"]
    /\ args = [c \in callers |-> <<>>]
    /\ sql = [c \in callers |-> ""]
    /\ start = [c \in callers |-> U64Zero]
    /\ maxResults = [c \in callers |-> U64Zero]
    /\ resp = [c \in callers |-> Nil]
    /\ log = [c \in callers |-> <<>>]
    /\ ret = [c \in callers |-> NoRet]

Init ==
    /\ callers = {1}
    /\ InitCalls
    /\ NoCursor

callVars == <<pc, args, sql, start, maxResults, resp, log, ret>>

\* func New(clientOptions, config)
New(clientOptions, config) ==
    /\ service = Nil
    /\ newIn' = [clientOptions |-> clientOptions, config |-> config]
    /\ newLog' = <<[op |-> "ClientOptions.Service"]>>
    /\ newRet' = NewResult(clientOptions, config)
    /\ service' = NewResult(clientOptions, config).svc
    /\ UNCHANGED <<callers, curVars, callVars>>

\* Query returns (q, err) to caller c
Return(c, q, err) ==
    /\ pc' = [pc EXCEPT ![c] = "returned"]
    /\ ret' = [ret EXCEPT ![c] = [q |-> q, err |-> err]]

\* Query keeping start and maxResults in one place shared by all callers
QuerySharedArgs(c, query, a) ==
    /\ service # Nil
    /\ pc[c] \in {"idle", "returned"}
    /\ args' = [args EXCEPT ![c] = a]
    /\ sql' = [sql EXCEPT ![c] = query]
    /\ start' = [x \in callers |-> queryArgs(a).start]
    /\ maxResults' = [x \in callers |-> queryArgs(a).maxResults]
    /\ resp' = [resp EXCEPT ![c] = Nil]
    /\ log' = [log EXCEPT ![c] = <<>>]
    /\ IF queryArgs(a).err # Nil
       THEN Return(c, Nil, queryArgs(a).err)
       ELSE /\ pc' = [pc EXCEPT ![c] = "requestQuery"]
            /\ ret' = [ret EXCEPT ![c] = NoRet]
    /\ UNCHANGED <<callers, curVars, svcVars>>

\* Service.Query, lines 45-49: the call and queryArgs
Query(c, query, a) ==
    /\ service # Nil
    /\ pc[c] \in {"idle", "returned"}
    /\ args' = [args EXCEPT ![c] = a]
    /\ sql' = [sql EXCEPT ![c] = query]
    /\ start' = [start EXCEPT ![c] = queryArgs(a).start]
    /\ maxResults' = [maxResults EXCEPT ![c] = queryArgs(a).maxResults]
    /\ resp' = [resp EXCEPT ![c] = Nil]
    /\ log' = [log EXCEPT ![c] = <<>>]
    /\ IF queryArgs(a).err # Nil
       THEN Return(c, Nil, queryArgs(a).err)
       ELSE /\ pc' = [pc EXCEPT ![c] = "requestQuery"]
            /\ ret' = [ret EXCEPT ![c] = NoRet]
    /\ UNCHANGED <<callers, curVars, svcVars>>

\* Service.Query, lines 51-60, and requestQuery: the request is sent and the
\* backend answers
RequestQueryAns(c, ans) ==
    /\ pc[c] = "requestQuery"
    /\ log' = [log EXCEPT ![c] = Append(@,
                 [op |-> "Jobs.Query",
                  projectID |-> service.config.ProjectID,
                  req |-> QueryRequest(service, sql[c], maxResults[c]),
                  ans |-> ans])]
    /\ resp' = [resp EXCEPT ![c] = ans.resp]
    /\ CASE afterRequest(ans) = "return" -> Return(c, Nil, ans.err)
         [] OTHER -> /\ pc' = [pc EXCEPT ![c] = afterRequest(ans)]
                     /\ UNCHANGED ret
    /\ UNCHANGED <<callers, curVars, svcVars, args, sql, start, maxResults>>

RequestQuery(c) == \E ans \in QueryAnswers : RequestQueryAns(c, ans)

\* waitForJob fetching the status under the dataset id and the query string
WaitForJobWrongIds(c) ==
    /\ pc[c] = "waitForJob"
    /\ Cardinality(Gets(log[c])) < MaxPolls
    /\ \E ans \in GetAnswers :
        /\ log' = [log EXCEPT ![c] = Append(@,
                     [op |-> "Jobs.Get",
                      projectID |-> service.config.DatasetID,
                      jobID |-> sql[c],
                      ans |-> ans])]
        /\ CASE waitForJobStep(ans).next = "return" ->
                    Return(c, Nil, waitForJobStep(ans).err)
             [] waitForJobStep(ans).next = "break" ->
                    /\ pc' = [pc EXCEPT ![c] = "newQuery"]
                    /\ UNCHANGED ret
             [] OTHER ->
                    /\ pc' = [pc EXCEPT ![c] = "sleep"]
                    /\ UNCHANGED ret
    /\ UNCHANGED <<callers, curVars, svcVars, args, sql, start, maxResults, resp>>

\* waitForJob, lines 83-94: one status fetch and what the loop does with it
WaitForJobAns(c, ans) ==
    /\ pc[c] = "waitForJob"
    /\ Cardinality(Gets(log[c])) < MaxPolls
    /\ log' = [log EXCEPT ![c] = Append(@,
                 [op |-> "Jobs.Get",
                  projectID |-> service.config.ProjectID,
                  jobID |-> resp[c].JobReference.JobId,
                  ans |-> ans])]
    /\ CASE waitForJobStep(ans).next = "return" ->
                Return(c, Nil, waitForJobStep(ans).err)
         [] waitForJobStep(ans).next = "break" ->
                /\ pc' = [pc EXCEPT ![c] = "newQuery"]
                /\ UNCHANGED ret
         [] OTHER ->
                /\ pc' = [pc EXCEPT ![c] = "sleep"]
                /\ UNCHANGED ret
    /\ UNCHANGED <<callers, curVars, svcVars, args, sql, start, maxResults, resp>>

WaitForJob(c) == \E ans \in GetAnswers : WaitForJobAns(c, ans)

\* waitForJob, line 95: <-time.After(300 * time.Millisecond)
Sleep(c) ==
    /\ pc[c] = "sleep"
    /\ log' = [log EXCEPT ![c] = Append(@, [op |-> "Sleep", ms |-> PollInterval])]
    /\ pc' = [pc EXCEPT ![c] = "waitForJob"]
    /\ UNCHANGED <<callers, curVars, svcVars, args, sql, start, maxResults, resp, ret>>

\* Service.Query, line 62: the cursor is built and returned
NewQuery(c) ==
    /\ pc[c] = "newQuery"
    /\ Return(c, newQuery(service, resp[c], start[c], maxResults[c]), Nil)
    /\ UNCHANGED <<callers, curVars, svcVars, args, sql, start, maxResults, resp, log>>

Next ==
    \/ \E o \in ClientOptionsSet, cfg \in Configs : New(o, cfg)
    \/ \E c \in callers, q \in Queries, a \in ArgLists : Query(c, q, a)
    \/ \E c \in callers : RequestQuery(c)
    \/ \E c \in callers : WaitForJob(c)
    \/ \E c \in callers : Sleep(c)
    \/ \E c \in callers : NewQuery(c)

Spec == Init /\ [][Next]_vars

-----------------------------------------------------------------------------
(* The loop of waitForJob without the bound on the status fetches *)

\* the log of a call with its oldest status fetch and the sleep after it
\* replaced by a mark: the log keeps the submit and the latest fetches
ElideOldest(l) ==
    IF l[2].op = "Elided"
    THEN <<l[1], l[2]>> \o SubSeq(l, 5, Len(l))
    ELSE <<l[1], [op |-> "Elided"]>> \o SubSeq(l, 4, Len(l))

\* waitForJob, lines 83-94, in an iteration after the first MaxPolls ones: the
\* for loop of line 82 has no counter and goes on
WaitForJobLate(c) ==
    /\ pc[c] = "waitForJob"
    /\ Cardinality(Gets(log[c])) = MaxPolls
    /\ \E ans \in GetAnswers :
        /\ log' = [log EXCEPT ![c] = Append(ElideOldest(@),
                     [op |-> "Jobs.Get",
                      projectID |-> service.config.ProjectID,
                      jobID |-> resp[c].JobReference.JobId,
                      ans |-> ans])]
        /\ CASE waitForJobStep(ans).next = "return" ->
                    Return(c, Nil, waitForJobStep(ans).err)
             [] waitForJobStep(ans).next = "break" ->
                    /\ pc' = [pc EXCEPT ![c] = "newQuery"]
                    /\ UNCHANGED ret
             [] OTHER ->
                    /\ pc' = [pc EXCEPT ![c] = "sleep"]
                    /\ UNCHANGED ret
    /\ UNCHANGED <<callers, curVars, svcVars, args, sql, start, maxResults, resp>>

\* the args of the calls whose loop is followed without bound
LiveArgLists == {<<>>, <<U64Five, U64Ten>>}

NextLive ==
    \/ \E o \in ClientOptionsSet, cfg \in Configs : New(o, cfg)
    \/ \E c \in callers, q \in Queries, a \in LiveArgLists : Query(c, q, a)
    \/ \E c \in callers : RequestQuery(c)
    \/ \E c \in callers : WaitForJob(c)
    \/ \E c \in callers : WaitForJobLate(c)
    \/ \E c \in callers : Sleep(c)
    \/ \E c \in callers : NewQuery(c)

\* the one caller of Spec and SpecLive
OneCaller == {1}

\* a call that was made runs on: the backend answers every request, with a
\* result or an error, the timer of line 95 fires, and line 62 is executed
FairCall(c) ==
    /\ WF_vars(RequestQuery(c))
    /\ WF_vars(WaitForJob(c))
    /\ WF_vars(WaitForJobLate(c))
    /\ WF_vars(Sleep(c))
    /\ WF_vars(NewQuery(c))

SpecLive == Init /\ [][NextLive]_vars /\ \A c \in OneCaller : FairCall(c)

-----------------------------------------------------------------------------
(* Two goroutines calling Query on one Service *)

InitConc ==
    /\ callers = {1, 2}
    /\ InitCalls
    /\ NoCursor

\* the args and the backend answers of the concurrent calls
ConcArgLists == {<<>>, <<U64Five, U64Ten>>, <<U64Zero, U64Zero, U64Zero>>}
ConcQueryAnswers ==
    { [resp |-> Nil, err |-> Err("transport", "connection reset")],
      [resp |-> [JobComplete |-> TRUE, JobReference |-> [JobId |-> "job1"],
                 Rows |-> <<"r1", "r2">>], err |-> Nil],
      [resp |-> [JobComplete |-> FALSE, JobReference |-> [JobId |-> "job1"],
                 Rows |-> <<>>], err |-> Nil],
      [resp |-> [JobComplete |-> FALSE, JobReference |-> [JobId |-> "job2"],
                 Rows |-> <<>>], err |-> Nil] }
ConcGetAnswers ==
    { [job |-> Nil, err |-> Err("transport", "connection reset")],
      [job |-> [Status |-> [State |-> "RUNNING", ErrorResult |-> Nil]], err |-> Nil],
      [job |-> [Status |-> [State |-> "DONE", ErrorResult |-> Nil]], err |-> Nil],
      [job |-> [Status |-> [State |-> "DONE",
                            ErrorResult |-> [Message |-> "quota exceeded"]]],
       err |-> Nil] }

NextConc ==
    \/ \E o \in ClientOptionsSet, cfg \in Configs : New(o, cfg)
    \/ \E c \in callers, q \in Queries, a \in ConcArgLists : Query(c, q, a)
    \/ \E c \in callers, ans \in ConcQueryAnswers : RequestQueryAns(c, ans)
    \/ \E c \in callers, ans \in ConcGetAnswers : WaitForJobAns(c, ans)
    \/ \E c \in callers : Sleep(c)
    \/ \E c \in callers : NewQuery(c)

SpecConc == InitConc /\ [][NextConc]_vars

-----------------------------------------------------------------------------
(* The Query cursor.  Its code (newQuery and the advance operation) is not in *)
(* service.go; it is modelled from the design: section 3 (data model),        *)
(* section 4.2 (Advance/Next) and section 6 (FetchResultsPage, RowPage).      *)

\* a uint64 below 2^31 as a number
U64Small(u) == u[3] * Limb + u[4]

\* the rows s, s+1, ... of the result set, n of them: rows are named by their
\* index in the result set
RowsFrom(s, n) == [i \in 1..n |-> s + i - 1]

\* a continuation reference
Token == [token |-> "next"]

\* the rows a page may hold under result limit ps (0: no limit)
PageLens(ps) == {n \in 0..MaxRows : ps = 0 \/ n <= ps}

\* the args of the calls whose cursor is iterated
CursorArgLists ==
    { <<>>, <<U64Five>>, <<U64Zero, U64(0, 0, 0, 1)>>,
      <<U64Five, U64(0, 0, 0, MaxRows)>> }

\* the answers to a submit under result limit ps: the job is complete, and
\* the first page holds the first rows of the result set
CursorQueryAnswers(ps) ==
    { [resp |-> [JobComplete |-> TRUE, JobReference |-> [JobId |-> "job1"],
                 Rows |-> RowsFrom(0, n), PageToken |-> t],
       err |-> Nil] : n \in PageLens(ps), t \in {Nil, Token} }

\* the answers of FetchResultsPage(projectID, jobID, startIndex, maxResults)
FetchAnswers(startIndex, ps) ==
    { [page |-> [rows |-> RowsFrom(startIndex, n), token |-> t], err |-> Nil] :
        n \in PageLens(ps), t \in {Nil, Token} }
    \cup { [page |-> Nil, err |-> Err("transport", "connection reset")] }

\* the cursor as newQuery seeds it: first page, projectID, offset, pageSize
seedCursor(q) ==
    [service |-> q.service,
     projectID |-> q.projectID,
     jobID |-> q.resp.JobReference.JobId,
     offset |-> U64Small(q.start),
     pageSize |-> U64Small(q.maxResults),
     page |-> q.resp.Rows,
     idx |-> 0,
     token |-> q.resp.PageToken]

\* the offset moving by the rows of the exhausted page whatever pageSize is
nextOffsetByRows(offset, pageSize, n) == offset + n

\* the offset staying where it is
nextOffsetSame(offset, pageSize, n) == offset

\* the offset of the next page: advanced by pageSize, or by the rows actually
\* returned if pageSize is unset
nextOffset(offset, pageSize, n) ==
    offset + (IF pageSize > 0 THEN pageSize ELSE n)

\* the caller starts to iterate the cursor Query returned to it
OpenCursor(c) ==
    /\ cursor = Nil
    /\ pc[c] = "returned"
    /\ ret[c].q # Nil
    /\ cursor' = seedCursor(ret[c].q)
    /\ yielded' = <<>>
    /\ fetches' = <<>>
    /\ last' = Nil
    /\ UNCHANGED <<callers, svcVars, callVars>>

\* advance: the current page has unread rows, the next one is returned
AdvanceYield ==
    /\ cursor # Nil
    /\ cursor.idx < Len(cursor.page)
    /\ cursor' = [cursor EXCEPT !.idx = @ + 1]
    /\ yielded' = Append(yielded, cursor.page[cursor.idx + 1])
    /\ last' = [kind |-> "row", row |-> cursor.page[cursor.idx + 1]]
    /\ UNCHANGED <<callers, svcVars, callVars, fetches>>

\* advance: the current page is exhausted and a continuation reference
\* exists: the next page is fetched and the advance resumes on it; a failed
\* fetch ends the advance with the error
AdvanceFetch ==
    /\ cursor # Nil
    /\ cursor.idx = Len(cursor.page)
    /\ cursor.token # Nil
    /\ Len(fetches) < MaxFetches
    /\ LET off == nextOffset(cursor.offset, cursor.pageSize, Len(cursor.page))
       IN  \E ans \in FetchAnswers(off, cursor.pageSize) :
             /\ fetches' = Append(fetches,
                    [projectID |-> cursor.projectID, jobID |-> cursor.jobID,
                     startIndex |-> off, maxResults |-> cursor.pageSize,
                     ans |-> ans])
             /\ IF ans.err # Nil
                THEN /\ last' = [kind |-> "error", err |-> ans.err]
                     /\ UNCHANGED cursor
                ELSE /\ last' = [kind |-> "resume"]
                     /\ cursor' = [cursor EXCEPT !.offset = off,
                                                 !.page = ans.page.rows,
                                                 !.idx = 0,
                                                 !.token = ans.page.token]
    /\ UNCHANGED <<callers, svcVars, callVars, yielded>>

\* advance: the current page is exhausted and no continuation reference
\* exists: end of sequence
AdvanceEnd ==
    /\ cursor # Nil
    /\ cursor.idx = Len(cursor.page)
    /\ cursor.token = Nil
    /\ last' = [kind |-> "eos"]
    /\ UNCHANGED <<callers, svcVars, callVars, cursor, yielded, fetches>>

NextCursor ==
    \/ \E o \in ClientOptionsSet, cfg \in Configs : New(o, cfg)
    \/ \E c \in callers, q \in Queries, a \in CursorArgLists :
          cursor = Nil /\ Query(c, q, a)
    \/ \E c \in callers :
          \E ans \in CursorQueryAnswers(U64Small(maxResults[c])) :
             RequestQueryAns(c, ans)
    \/ \E c \in callers : NewQuery(c)
    \/ \E c \in callers : OpenCursor(c)
    \/ AdvanceYield
    \/ AdvanceFetch
    \/ AdvanceEnd

SpecCursor == Init /\ [][NextCursor]_vars

-----------------------------------------------------------------------------
(* Properties *)

\* what the entries of a call's log say
SubmitOK(e) == e.op = "Jobs.Query" /\ e.ans.err = Nil
SubmitFailed(e) == e.op = "Jobs.Query" /\ e.ans.err # Nil
SubmitIncomplete(e) == SubmitOK(e) /\ ~e.ans.resp.JobComplete
SubmitComplete(e) == SubmitOK(e) /\ e.ans.resp.JobComplete
GetFailed(e) == e.op = "Jobs.Get" /\ e.ans.err # Nil
GetDone(e) ==
    e.op = "Jobs.Get" /\ e.ans.err = Nil /\ e.ans.job.Status.State = "DONE"
GetDoneOK(e) == GetDone(e) /\ e.ans.job.Status.ErrorResult = Nil
GetDoneErr(e) == GetDone(e) /\ e.ans.job.Status.ErrorResult # Nil
GetNotDone(e) ==
    e.op = "Jobs.Get" /\ e.ans.err = Nil /\ e.ans.job.Status.State # "DONE"

Has(l, P(_)) == \E i \in 1..Len(l) : P(l[i])
Last(l) == l[Len(l)]

\* the call of caller c has a cursor: built, or already returned
HasCursor(c) == pc[c] = "newQuery" \/ (pc[c] = "returned" /\ ret[c].q # Nil)
ReturnedCursor(c) == pc[c] = "returned" /\ ret[c].q # Nil
ReturnedErr(c) == pc[c] = "returned" /\ ret[c].q = Nil /\ ret[c].err # Nil

\* C1: after a submit that answered jobComplete=false, a Query call builds or
\* returns a cursor only when its latest status fetch answered DONE with no
\* error payload; while every status answer so far was non-DONE there is no
\* cursor.
C1_CursorOnlyAfterDone ==
    \A c \in callers :
        (Has(log[c], SubmitIncomplete) /\ HasCursor(c))
            => /\ Len(log[c]) > 0
               /\ GetDoneOK(Last(log[c]))

\* C1 witness: a cursor returned after a non-DONE status and then a clean DONE
C1_Witness ==
    \E c \in callers :
        /\ ReturnedCursor(c)
        /\ Has(log[c], SubmitIncomplete)
        /\ Has(log[c], GetNotDone)
        /\ GetDoneOK(Last(log[c]))

\* C2: if the submit answered jobComplete=true, the call makes no status
\* fetch and no sleep, goes straight to building the cursor, and the cursor
\* it returns holds the submit response (with its first page).
C2_CompleteSkipsPolling ==
    \A c \in callers : \A i \in 1..Len(log[c]) :
        SubmitComplete(log[c][i])
            => /\ Gets(log[c]) = {}
               /\ Sleeps(log[c]) = {}
               /\ pc[c] \in {"newQuery", "returned"}
               /\ pc[c] = "returned"
                    => /\ ret[c].err = Nil
                       /\ ret[c].q # Nil
                       /\ ret[c].q.resp = log[c][i].ans.resp

\* C2 witness: a cursor returned from a complete submit carrying rows
C2_Witness ==
    \E c \in callers :
        /\ ReturnedCursor(c)
        /\ Len(log[c]) = 1
        /\ SubmitComplete(log[c][1])
        /\ ret[c].q.resp.Rows # <<>>

\* C3: a status fetch that answered DONE with an error payload is the last
\* thing the call did with the backend (no further fetch, no sleep); the call
\* has returned no cursor and an error whose message is the payload's message.
C3_DoneWithErrorFails ==
    \A c \in callers : \A i \in 1..Len(log[c]) :
        GetDoneErr(log[c][i])
            => /\ i = Len(log[c])
               /\ ReturnedErr(c)
               /\ ret[c].err.msg = log[c][i].ans.job.Status.ErrorResult.Message

\* C3 witness: DONE with an error payload after an earlier non-DONE status
C3_Witness ==
    \E c \in callers :
        /\ Len(log[c]) > 0
        /\ GetDoneErr(Last(log[c]))
        /\ Has(log[c], GetNotDone)
        /\ ReturnedErr(c)

\* C4: a status fetch that failed is the last thing the call did (no further
\* fetch, no sleep); the call has returned no cursor and that same error.
C4_PollFailureAborts ==
    \A c \in callers : \A i \in 1..Len(log[c]) :
        GetFailed(log[c][i])
            => /\ i = Len(log[c])
               /\ pc[c] = "returned"
               /\ ret[c].q = Nil
               /\ ret[c].err = log[c][i].ans.err

\* C4 witness: a failed status fetch after an earlier successful non-DONE one
C4_Witness ==
    \E c \in callers :
        /\ Len(log[c]) > 0
        /\ GetFailed(Last(log[c]))
        /\ Has(log[c], GetNotDone)
        /\ pc[c] = "returned"

\* C5: a Query call with more than two arguments has returned no cursor and
\* the "too many arguments" error, and has made no backend call and no sleep.
C5_TooManyArgsFailsFirst ==
    \A c \in callers :
        Len(args[c]) > 2
            => /\ pc[c] = "returned"
               /\ ret[c].q = Nil
               /\ ret[c].err = Err("fmt.Errorf",
                       "too many arguments given to query: " \o ToString(Len(args[c])))
               /\ log[c] = <<>>

\* C5 witness: a call with three arguments has returned
C5_Witness ==
    \E c \in callers : Len(args[c]) = 3 /\ pc[c] = "returned"

\* the last call of New had a config with an empty projectID or datasetID
NewEmptyConfig ==
    /\ newIn # Nil
    /\ (newIn.config.ProjectID = "" \/ newIn.config.DatasetID = "")

NoBackendCall ==
    /\ \A i \in 1..Len(newLog) : newLog[i].op \notin {"Jobs.Query", "Jobs.Get"}
    /\ \A c \in callers : log[c] = <<>>

\* C6 as stated: New of a config with an empty projectID or datasetID fails
\* with errInvalidConfig and no backend call is attempted.
C6_Original ==
    NewEmptyConfig
        => /\ newRet.svc = Nil
           /\ newRet.err = errInvalidConfig
           /\ NoBackendCall

\* C6 amended: New of a config with an empty projectID or datasetID returns no
\* Service and an error: errInvalidConfig when the client factory succeeded,
\* the factory's error when it failed; no backend call is attempted.
C6_EmptyConfigFails ==
    NewEmptyConfig
        => /\ newRet.svc = Nil
           /\ newRet.err # Nil
           /\ newIn.clientOptions.err = Nil => newRet.err = errInvalidConfig
           /\ newIn.clientOptions.err # Nil => newRet.err = newIn.clientOptions.err
           /\ NoBackendCall

\* C6 witness: the factory succeeded, only one of the two ids is empty
C6_Witness ==
    /\ NewEmptyConfig
    /\ newIn.clientOptions.err = Nil
    /\ newIn.config.ProjectID # newIn.config.DatasetID
    /\ newIn.config.ProjectID = ""
    /\ newRet.err = errInvalidConfig

\* C7: if the factory failed, New returned no Service and the factory's
\* error, whatever the config; New returned a Service exactly when the factory
\* succeeded and both ids are non-empty, and the Service wraps both.
C7_FactoryFailureAndService ==
    newIn # Nil
        => /\ newIn.clientOptions.err # Nil
                => newRet = [svc |-> Nil, err |-> newIn.clientOptions.err]
           /\ newRet.svc # Nil
                <=> /\ newIn.clientOptions.err = Nil
                    /\ newIn.config.ProjectID # ""
                    /\ newIn.config.DatasetID # ""
           /\ newRet.svc # Nil
                => /\ newRet.svc.config = newIn.config
                   /\ newRet.svc.service = newIn.clientOptions.bqService
                   /\ newRet.err = Nil

\* C7 witness: the factory failed on a config with an empty id
C7_Witness ==
    /\ NewEmptyConfig
    /\ newIn.clientOptions.err # Nil
    /\ newRet.err = newIn.clientOptions.err

\* the offset and pageSize a positional reading of args gives
PosOffset(a) == IF Len(a) >= 1 THEN a[1] ELSE U64Zero
PosPageSize(a) == IF Len(a) >= 2 THEN a[2] ELSE U64Zero

\* C8: for a call with at most two arguments, start and maxResults are the
\* positional (offset, pageSize), zero where absent, and a returned cursor is
\* seeded with these two values and the configured projectID.
C8_PositionalArgs ==
    \A c \in callers :
        (pc[c] # "idle" /\ Len(args[c]) <= 2)
            => /\ start[c] = PosOffset(args[c])
               /\ maxResults[c] = PosPageSize(args[c])
               /\ ReturnedCursor(c)
                    => /\ ret[c].q.start = PosOffset(args[c])
                       /\ ret[c].q.maxResults = PosPageSize(args[c])
                       /\ ret[c].q.projectID = service.config.ProjectID

\* C8 witness: a cursor returned for two different arguments
C8_Witness ==
    \E c \in callers :
        /\ ReturnedCursor(c)
        /\ Len(args[c]) = 2
        /\ args[c][1] = U64Five
        /\ args[c][2] = U64Ten

\* C9 as stated: every submitted request carries MaxResults equal to pageSize
\* when pageSize > 0 and the zero value (no hint) when pageSize = 0, and is
\* the same request whatever the offset.
C9_HintEqualsPageSize ==
    \A c \in callers : \A i \in Submits(log[c]) :
        /\ U64Positive(maxResults[c])
             => log[c][i].req.MaxResults = [neg |-> FALSE, mag |-> maxResults[c]]
        /\ ~U64Positive(maxResults[c])
             => log[c][i].req.MaxResults = Int64Zero
        /\ log[c][i].req = QueryRequest(service, sql[c], PosPageSize(args[c]))

\* C10: a failed submit is the only thing the call did with the backend (no
\* status fetch, no sleep); the call has returned no cursor and that error.
C10_SubmitFailureReturns ==
    \A c \in callers : \A i \in 1..Len(log[c]) :
        SubmitFailed(log[c][i])
            => /\ Len(log[c]) = 1
               /\ pc[c] = "returned"
               /\ ret[c].q = Nil
               /\ ret[c].err = log[c][i].ans.err

\* C10 witness: a call that returned the error of its submit
C10_Witness ==
    \E c \in callers :
        /\ Len(log[c]) = 1
        /\ SubmitFailed(log[c][1])
        /\ ReturnedErr(c)

\* C11: in a call's log no sleep comes before the first status fetch, every
\* sleep stands directly after a status fetch that answered non-DONE, two
\* status fetches in a row are exactly one sleep apart, and nothing follows a
\* status fetch that answered DONE or failed.
C11_SleepOnlyBetweenFetches ==
    \A c \in callers : \A i \in 1..Len(log[c]) :
        /\ log[c][i].op = "Sleep"
             => /\ i > 1
                /\ GetNotDone(log[c][i - 1])
                /\ i < Len(log[c]) => log[c][i + 1].op = "Jobs.Get"
        /\ log[c][i].op = "Jobs.Get"
             => /\ i > 1
                /\ log[c][i - 1].op \in {"Jobs.Query", "Sleep"}
                /\ log[c][i - 1].op = "Sleep" => log[c][i - 2].op = "Jobs.Get"
                /\ log[c][i - 1].op = "Jobs.Query" => Gets(log[c]) \cap 1..(i - 1) = {}
        /\ (GetDone(log[c][i]) \/ GetFailed(log[c][i])) => i = Len(log[c])

\* C11 witness: submit, fetch, sleep, fetch, and the call is over
C11_Witness ==
    \E c \in callers :
        /\ Len(log[c]) = 4
        /\ log[c][2].op = "Jobs.Get"
        /\ log[c][3].op = "Sleep"
        /\ GetDone(log[c][4])
        /\ pc[c] = "returned"

\* C16: a status fetch that answered any state but DONE, ERROR and an error
\* payload included, leaves the call sleeping with nothing returned, and is
\* followed by one sleep and the next status fetch; an error made from a
\* payload is returned only when the latest status answered DONE.
C16_NonDoneIsPolledAgain ==
    \A c \in callers :
        /\ \A i \in 1..Len(log[c]) :
              GetNotDone(log[c][i])
                => /\ i = Len(log[c]) => (pc[c] = "sleep" /\ ret[c] = NoRet)
                   /\ i < Len(log[c]) => log[c][i + 1].op = "Sleep"
                   /\ i + 1 < Len(log[c]) => log[c][i + 2].op = "Jobs.Get"
        /\ (pc[c] = "returned" /\ ret[c].err # Nil /\ ret[c].err.origin = "errors.New")
              => GetDoneErr(Last(log[c]))

\* C16 witness: state ERROR with an error payload, then a sleep and a fetch
C16_Witness ==
    \E c \in callers :
        /\ Len(log[c]) >= 4
        /\ GetNotDone(log[c][2])
        /\ log[c][2].ans.job.Status.State = "ERROR"
        /\ log[c][2].ans.job.Status.ErrorResult # Nil
        /\ log[c][3].op = "Sleep"
        /\ log[c][4].op = "Jobs.Get"

\* C17: a call that passed queryArgs has an empty log until its submit, and
\* from then on exactly one submit, which is the first entry; the submit and
\* every status fetch use the configured projectID, and every status fetch
\* uses the job id that submit answered.
C17_OneSubmitFirst ==
    \A c \in callers :
        /\ pc[c] = "requestQuery" => log[c] = <<>>
        /\ pc[c] \in {"waitForJob", "sleep", "newQuery"} => Submits(log[c]) = {1}
        /\ (pc[c] = "returned" /\ Len(args[c]) <= 2) => Submits(log[c]) = {1}
        /\ \A i \in Submits(log[c]) : log[c][i].projectID = service.config.ProjectID
        /\ \A i \in Gets(log[c]) :
              /\ Submits(log[c]) \cap 1..(i - 1) = {1}
              /\ SubmitIncomplete(log[c][1])
              /\ log[c][i].projectID = service.config.ProjectID
              /\ log[c][i].jobID = log[c][1].ans.resp.JobReference.JobId

\* C17 witness: two status fetches for job2 after the one submit
C17_Witness ==
    \E c \in callers :
        /\ Cardinality(Gets(log[c])) = 2
        /\ Submits(log[c]) = {1}
        /\ log[c][1].ans.resp.JobReference.JobId = "job2"
        /\ pc[c] = "returned"

\* C18: a Query call that has returned gave exactly one of a cursor and an
\* error, and so did the last call of New with a Service and an error.
C18_ResultXorError ==
    /\ \A c \in callers :
          pc[c] = "returned" => ((ret[c].q = Nil) <=> (ret[c].err # Nil))
    /\ newIn # Nil => ((newRet.svc = Nil) <=> (newRet.err # Nil))
    /\ service = newRet.svc

\* C18 witness: New returned a Service, and a call failed on a job execution
\* error
C18_Witness ==
    \E c \in callers :
        /\ ReturnedErr(c)
        /\ Len(log[c]) > 0
        /\ GetDoneErr(Last(log[c]))
        /\ newRet.err = Nil

\* the latest entry of the call's log is a status fetch that ended the loop
TerminalLast(c) ==
    /\ Len(log[c]) > 0
    /\ (GetDone(Last(log[c])) \/ GetFailed(Last(log[c])))

\* a call that left the loop did so on a DONE or on a failed status fetch
NoGiveUp ==
    \A c \in callers :
        (Has(log[c], SubmitIncomplete) /\ pc[c] \in {"newQuery", "returned"})
            => TerminalLast(c)

\* C12: with the loop unbounded, a call never leaves the loop but on a status
\* fetch that answered DONE or failed, however many fetches came before; once
\* a status fetch has answered DONE or failed the call returns; until then
\* every sleep is followed by a status fetch and every status fetch is made.
C12_PollsUntilDoneOrError ==
    /\ []NoGiveUp
    /\ \A c \in OneCaller : TerminalLast(c) ~> (pc[c] = "returned")
    /\ \A c \in OneCaller : (pc[c] = "sleep") ~> (pc[c] = "waitForJob")
    /\ \A c \in OneCaller : (pc[c] = "waitForJob") ~> (pc[c] # "waitForJob")

\* C12 witness: a cursor returned after more than MaxPolls status fetches
C12_Witness ==
    \E c \in callers :
        /\ ReturnedCursor(c)
        /\ Len(log[c]) > 2
        /\ log[c][2].op = "Elided"
        /\ Cardinality(Gets(log[c])) = MaxPolls

\* what a call with args a returns when it runs alone on Service s and the
\* backend gives it the answers recorded in l
AloneOutcome(s, a, l) ==
    LET built(r) == [service |-> s.service, resp |-> r,
                      projectID |-> s.config.ProjectID,
                      start |-> PosOffset(a), maxResults |-> PosPageSize(a)]
    IN  IF Len(a) > 2
        THEN [q |-> Nil,
              err |-> Err("fmt.Errorf",
                          "too many arguments given to query: " \o ToString(Len(a)))]
        ELSE IF SubmitFailed(l[1])
        THEN [q |-> Nil, err |-> l[1].ans.err]
        ELSE IF SubmitComplete(l[1])
        THEN [q |-> built(l[1].ans.resp), err |-> Nil]
        ELSE IF GetFailed(Last(l))
        THEN [q |-> Nil, err |-> Last(l).ans.err]
        ELSE IF GetDoneErr(Last(l))
        THEN [q |-> Nil,
              err |-> Err("errors.New", Last(l).ans.job.Status.ErrorResult.Message)]
        ELSE [q |-> built(l[1].ans.resp), err |-> Nil]

\* every call that has returned gave what it would have given alone
SameAsAlone ==
    \A c \in callers :
        pc[c] = "returned" => ret[c] = AloneOutcome(service, args[c], log[c])

\* C13: no step changes the Service once New has returned it, and with two
\* callers interleaved in any way each call that has returned gave what it
\* would have given running alone with the backend answers it got.
C13_ServiceReadOnlyCallsIndependent ==
    /\ [][service # Nil => service' = service]_vars
    /\ []SameAsAlone

\* C13 witness: caller 1 got its cursor for (5, 10) out of the loop while
\* caller 2, called without arguments, is inside its own loop
C13_Witness ==
    /\ callers = {1, 2}
    /\ ReturnedCursor(1)
    /\ args[1] = <<U64Five, U64Ten>>
    /\ Has(log[1], GetNotDone)
    /\ args[2] = <<>>
    /\ pc[2] = "sleep"

\* the cursor's current page is exhausted
Exhausted == cursor.idx = Len(cursor.page)

\* a step that fetches a page: it fetches one page, the current page is
\* exhausted and has a continuation reference, and the fetch is for the
\* cursor's project and job, at the offset moved on by the rows of the
\* exhausted page, or by pageSize if pageSize > 0
FetchStepOK ==
    fetches' # fetches
        => /\ Len(fetches') = Len(fetches) + 1
           /\ SubSeq(fetches', 1, Len(fetches)) = fetches
           /\ cursor # Nil
           /\ Exhausted
           /\ cursor.token # Nil
           /\ Last(fetches').projectID = service.config.ProjectID
           /\ Last(fetches').jobID = cursor.jobID
           /\ Last(fetches').maxResults = cursor.pageSize
           /\ Last(fetches').startIndex =
                 IF cursor.pageSize > 0
                 THEN cursor.offset + cursor.pageSize
                 ELSE cursor.offset + Len(cursor.page)
           /\ Last(fetches').ans.err = Nil
                 => /\ cursor'.offset = Last(fetches').startIndex
                    /\ cursor'.page = Last(fetches').ans.page.rows

\* a step that yields a row fetches nothing and yields the next unread row of
\* the current page
YieldStepOK ==
    yielded' # yielded
        => /\ fetches' = fetches
           /\ cursor # Nil
           /\ ~Exhausted
           /\ yielded' = Append(yielded, cursor.page[cursor.idx + 1])

\* end-of-sequence is given only on an exhausted page without continuation
EosOnlyAtEnd ==
    (last # Nil /\ last.kind = "eos") => (Exhausted /\ cursor.token = Nil)

\* C14: the cursor yields the rows of each page in order and fetches nothing
\* while rows are unread; an exhausted page of N rows with a continuation
\* reference gets one FetchResultsPage call at offset + N, or offset +
\* pageSize if pageSize > 0; end-of-sequence is given only when no
\* continuation reference remains.
C14_PagesFetchedOnExhaustion ==
    /\ [][FetchStepOK /\ YieldStepOK]_vars
    /\ []EosOnlyAtEnd

\* C14 witness: with pageSize 0 and offset 5 the two rows of the first page
\* were yielded, the next page was fetched at 7, and a row of it was yielded
C14_Witness ==
    /\ cursor # Nil
    /\ cursor.pageSize = 0
    /\ Len(fetches) = 1
    /\ fetches[1].startIndex = 7
    /\ Len(yielded) = 3
    /\ yielded[3] = 7

\* the cursor has given end-of-sequence
AtEos == last # Nil /\ last.kind = "eos"

\* C15: once the cursor has given end-of-sequence every further advance
\* gives end-of-sequence, yields no row and fetches no page; and no row is
\* yielded twice.
C15_EosIsFinalNoRowTwice ==
    /\ [][AtEos => (AtEos' /\ yielded' = yielded /\ fetches' = fetches
                           /\ cursor' = cursor)]_vars
    /\ [](\A i, j \in 1..Len(yielded) : yielded[i] = yielded[j] => i = j)
    /\ [](AtEos => ~ENABLED AdvanceYield /\ ~ENABLED AdvanceFetch)

\* C15 witness: end-of-sequence after rows of two pages
C15_Witness ==
    /\ AtEos
    /\ Len(fetches) >= 1
    /\ Len(yielded) >= 3

====
